---- MODULE Spec2Model ----
(***************************************************************************)
(* Save-safe minification pipeline of css-js-minifier.                     *)
(*                                                                         *)
(* The extension host is single threaded: every action below is one        *)
(* synchronous segment of a handler, from the resumption of an await (or   *)
(* the start of the handler) up to the next await.  Host operations        *)
(* (fetch, timer, applyEdit, document.save, fs.writeFile,                  *)
(* showTextDocument, delivery of onDidSaveTextDocument) are the awaited    *)
(* steps, and their order is chosen by the host.                           *)
(*                                                                         *)
(* A text is abstracted to [v, bytes]: v tells the source text ("src")     *)
(* from a response body ("min"), bytes is its UTF-8 length.  A file name   *)
(* is the sequence of its pieces, the last piece being the extension.      *)
(***************************************************************************)
EXTENDS Integers, Sequences, FiniteSets, TLC

\* ---------------------------------------------------------------- bounds
MaxInv == 2
MaxUserOps == 1

\* ------------------------------------------------------ program constants
MAX_FILE_SIZE_BYTES == 5 * 1024 * 1024
API_TIMEOUT_MS == 5000

\* ------------------------------------------------------------ input sets
Docs == {"a"}
Prefixes == {<<".min">>}
SUPPORTED_FILE_TYPES == {"css", "javascript"}
\* the documents the user may have open: language, extension, UTF-8 size
Profiles ==
  { [languageId |-> "css",        ext |-> ".css",  bytes |-> 32],
    [languageId |-> "css",        ext |-> ".css",  bytes |-> 0],
    [languageId |-> "css",        ext |-> ".css",  bytes |-> MAX_FILE_SIZE_BYTES + 1],
    [languageId |-> "javascript", ext |-> ".mjs",  bytes |-> 32],
    [languageId |-> "html",       ext |-> ".html", bytes |-> 32] }
\* the body of a 200 response
ResponseBody == [v |-> "min", bytes |-> 25]
FetchOutcomes == {"ok", "http", "neterr"}
NoOptions == [saveAsNewFile |-> FALSE, filePrefix |-> <<>>, debugSource |-> "none"]
NoText == [v |-> "none", bytes |-> 0]
\* getMinifiedText returned null
NoResult == [null |-> TRUE, minifiedText |-> NoText]
\* a 200 response with an empty body
EmptyBody == [v |-> "empty", bytes |-> 0]
Bodies == {ResponseBody, EmptyBody}
Final == {"done", "rejected"}
\* no pure function is under examination
NoProbe == [fn |-> "none"]

VARIABLES
  cfg,                  \* the css-js-minifier settings
  listening,            \* onSaveMinify is subscribed to onDidSaveTextDocument
  docs,                 \* languageId and fileName of every document
  docText,              \* editor buffer of every document
  dirty,                \* the buffer differs from what was last persisted
  fs,                   \* the file system: path -> content
  shown,                \* paths opened by showTextDocument
  processingDocuments,  \* the module-wide guard set
  pendingSaves,         \* onDidSaveTextDocument events raised, not yet delivered
  inv,                  \* the invocations (command runs and save handler runs)
  net,                  \* the requests sent: state of the fetch and of its timer
  userOps,              \* number of user actions so far
  probe                 \* a call of a pure function: its arguments and its result

vars == <<cfg, listening, docs, docText, dirty, fs, shown, processingDocuments,
          pendingSaves, inv, net, userOps, probe>>

\* ----------------------------------------------------------- validators
isValidFileType(fileType) == fileType \in SUPPORTED_FILE_TYPES

\* text.length === 0; a string has no UTF-8 bytes exactly when it has no characters
validateContentLength(text) == text.bytes # 0

\* the size check left out
withinSizeLimit_none(text) == TRUE

\* ---------------------------------------------------------- file service
\* the pattern without its $ anchor: the prefix goes before the first .css
\* or .js of the name
createMinifiedFileName_unanchored(originalFileName, prefix) ==
  IF \E k \in 1..Len(originalFileName) : originalFileName[k] \in {".css", ".js"}
  THEN LET k == CHOOSE j \in 1..Len(originalFileName) :
                  /\ originalFileName[j] \in {".css", ".js"}
                  /\ \A h \in 1..(j - 1) : originalFileName[h] \notin {".css", ".js"}
       IN SubSeq(originalFileName, 1, k - 1) \o prefix
            \o SubSeq(originalFileName, k, Len(originalFileName))
  ELSE originalFileName

\* originalFileName.replace(/(\.css|\.js)$/, `${prefix}$1`)
createMinifiedFileName(originalFileName, prefix) ==
  IF Len(originalFileName) > 0 /\ originalFileName[Len(originalFileName)] \in {".css", ".js"}
  THEN SubSeq(originalFileName, 1, Len(originalFileName) - 1)
         \o prefix \o <<originalFileName[Len(originalFileName)]>>
  ELSE originalFileName

WriteTo(f, path, content) ==
  [p \in (DOMAIN f) \cup {path} |-> IF p = path THEN content ELSE f[p]]

\* ------------------------------------------------------------ invocations
\* a run of a command handler or of onSaveMinify at its first line; cfg0 is
\* the settings as they are at that moment
NewInv(entry, d) ==
  [entry |-> entry, doc |-> d, pc |-> "start", call |-> 1, opts |-> NoOptions,
   guarded |-> FALSE, text |-> NoText, fileType |-> "none", minified |-> NoText,
   target |-> <<>>, req |-> 0, errs |-> 0, infos |-> 0, reqs |-> 0, writes |-> 0,
   cfg0 |-> cfg, msg |-> "none"]

\* vscode.window.showErrorMessage for a failed check: one more error shown,
\* msg is the message of the last failed check
showErrorMessage(r, key) == [r EXCEPT !.errs = @ + 1, !.msg = key]

\* the ceiling taken to be exclusive
withinSizeLimit_below(text) == text.bytes < MAX_FILE_SIZE_BYTES

\* the size check at the head of getMinifiedText
withinSizeLimit(text) == ~(text.bytes > MAX_FILE_SIZE_BYTES)

\* getMinifiedText up to its first await: the two early returns, then the fetch
GetMinifiedTextStart(r) ==
  IF ~isValidFileType(r.fileType)
  THEN [showErrorMessage(r, "minificationService.fileType.unsupported") EXCEPT !.pc = "null"]
  ELSE IF ~withinSizeLimit(r.text)
  THEN [showErrorMessage(r, "minificationService.fileSize.tooLarge") EXCEPT !.pc = "null"]
  ELSE [r EXCEPT !.pc = "fetch"]

\* what the caller of processDocument does once processDocument has returned
ProcessReturn(r) ==
  IF r.entry = "save" THEN [r EXCEPT !.pc = "done"]
  ELSE IF r.call = 1 THEN [r EXCEPT !.pc = "openDoc"]
  ELSE [r EXCEPT !.pc = "done"]

\* getMinifiedText returned null: onSaveMinify leaves its try block,
\* processDocument returns
AfterNull(r) ==
  IF r.guarded THEN [r EXCEPT !.pc = "done"] ELSE ProcessReturn([r EXCEPT !.pc = "returned"])

\* processDocument returning at once for a document in Processing
ProcessDocumentStart_guarded(r, options) ==
  LET r1 == [r EXCEPT !.text = docText[r.doc], !.fileType = docs[r.doc].languageId,
                      !.opts = options]
  IN IF r.doc \in processingDocuments THEN ProcessReturn(r1)
     ELSE IF ~isValidFileType(r1.fileType) THEN ProcessReturn(showErrorMessage(r1, "validators.fileType.unsupported"))
     ELSE IF ~validateContentLength(r1.text) THEN ProcessReturn(showErrorMessage(r1, "validators.content.empty"))
     ELSE LET g == GetMinifiedTextStart(r1)
          IN IF g.pc = "null" THEN AfterNull(g) ELSE g

\* processDocument from its first line to its first await
ProcessDocumentStart(r, options) ==
  LET r1 == [r EXCEPT !.text = docText[r.doc], !.fileType = docs[r.doc].languageId,
                      !.opts = options]
  IN IF ~isValidFileType(r1.fileType) THEN ProcessReturn(showErrorMessage(r1, "validators.fileType.unsupported"))
     ELSE IF ~validateContentLength(r1.text) THEN ProcessReturn(showErrorMessage(r1, "validators.content.empty"))
     ELSE LET g == GetMinifiedTextStart(r1)
          IN IF g.pc = "null" THEN AfterNull(g) ELSE g

\* the branch taken with a minification result in hand
WriteBackStart(r) ==
  IF r.guarded THEN [r EXCEPT !.pc = "applyEdit"]
  ELSE IF r.opts.saveAsNewFile /\ r.opts.filePrefix # <<>>
       THEN [r EXCEPT !.pc = "writeFile",
                      !.target = createMinifiedFileName(docs[r.doc].fileName, r.opts.filePrefix)]
       ELSE [r EXCEPT !.pc = "applyEdit"]

\* the guard deleted after a successful write only, with no finally
ReleaseGuard_noFinally(r, pd) == IF r.guarded /\ r.pc = "done" /\ r.infos > 0 THEN pd \ {r.doc} ELSE pd

\* the finally block of onSaveMinify
ReleaseGuard(r, pd) == IF r.guarded THEN pd \ {r.doc} ELSE pd

\* the entry added only once the minification call has returned, the check
\* and the acquisition being separated by the await
GuardAfter_acquireAfterAwait(r, pd) ==
  IF r.pc \in Final THEN ReleaseGuard(r, pd)
  ELSE IF r.guarded /\ r.pc # "race" THEN pd \cup {r.doc} ELSE pd

\* the guard after a segment of invocation r
GuardAfter(r, pd) ==
  IF r.pc \in Final THEN ReleaseGuard(r, pd)
  ELSE IF r.guarded THEN pd \cup {r.doc} ELSE pd

\* record the outcome of a segment: send the request if the segment ended in
\* the fetch, update the guard
Commit(i, r) ==
  LET issue == r.pc = "fetch"
      r2 == IF issue THEN [r EXCEPT !.pc = "race", !.req = Len(net) + 1, !.reqs = @ + 1]
            ELSE r
  IN /\ inv' = IF i = Len(inv) + 1 THEN Append(inv, r2) ELSE [inv EXCEPT ![i] = r2]
     /\ net' = IF issue
               THEN Append(net, [inv |-> i, fetch |-> "pending", timer |-> "armed",
                                 won |-> "none", body |-> NoText])
               ELSE net
     /\ processingDocuments' = GuardAfter(r2, processingDocuments)

\* ------------------------------------------------------------------ Init
Init ==
  /\ cfg \in [minifyOnSave : BOOLEAN, minifyInNewFile : BOOLEAN,
              minifiedNewFilePrefix : Prefixes, autoOpenNewFile : BOOLEAN]
  /\ listening = cfg.minifyOnSave
  /\ \E p \in [Docs -> Profiles] :
       docs = [d \in Docs |-> [languageId |-> p[d].languageId,
                               fileName |-> <<d, p[d].ext>>, bytes |-> p[d].bytes]]
  /\ docText = [d \in Docs |-> [v |-> "src", bytes |-> docs[d].bytes]]
  /\ dirty = [d \in Docs |-> FALSE]
  /\ fs = [p \in {docs[d].fileName : d \in Docs} |->
             docText[CHOOSE e \in Docs : docs[e].fileName = p]]
  /\ shown = {}
  /\ processingDocuments = {}
  /\ pendingSaves = [d \in Docs |-> 0]
  /\ inv = <<>>
  /\ net = <<>>
  /\ userOps = 0
  /\ probe = NoProbe

\* --------------------------------------------------------- user actions
\* the user starts a command once the previous command has ended; saves
\* (and the handlers they start) are not so restricted
NoCommandRunning == \A j \in 1..Len(inv) : inv[j].entry # "save" => inv[j].pc \in Final

\* the user saves the document (Ctrl+S): the host persists the buffer and
\* raises onDidSaveTextDocument
UserSave(d) ==
  /\ userOps < MaxUserOps
  /\ userOps' = userOps + 1
  /\ fs' = WriteTo(fs, docs[d].fileName, docText[d])
  /\ dirty' = [dirty EXCEPT ![d] = FALSE]
  /\ pendingSaves' = [pendingSaves EXCEPT ![d] = @ + 1]
  /\ UNCHANGED <<probe, cfg, listening, docs, docText, shown, processingDocuments, inv, net>>

\* extension.minify with document d in the active editor
minifyCommand(d) ==
  /\ userOps < MaxUserOps
  /\ Len(inv) < MaxInv
  /\ NoCommandRunning
  /\ userOps' = userOps + 1
  /\ Commit(Len(inv) + 1,
            ProcessDocumentStart(NewInv("minify", d),
                                 [NoOptions EXCEPT !.debugSource = "manual"]))
  /\ UNCHANGED <<probe, cfg, listening, docs, docText, dirty, fs, shown, pendingSaves>>

\* extension.minifyInNewFile with document d in the active editor
minifyInNewFileCommand(d) ==
  /\ userOps < MaxUserOps
  /\ Len(inv) < MaxInv
  /\ NoCommandRunning
  /\ userOps' = userOps + 1
  /\ Commit(Len(inv) + 1,
            ProcessDocumentStart(NewInv("minifyInNewFile", d),
                                 [saveAsNewFile |-> TRUE,
                                  filePrefix |-> cfg.minifiedNewFilePrefix,
                                  debugSource |-> "manual"]))
  /\ UNCHANGED <<probe, cfg, listening, docs, docText, dirty, fs, shown, pendingSaves>>

\* the command's second half: await openTextDocument(explorer), then
\* processDocument once more on the same document
OpenDoc(i) ==
  /\ i \in 1..Len(inv)
  /\ inv[i].pc = "openDoc"
  /\ LET r == [inv[i] EXCEPT !.call = 2]
     IN Commit(i, ProcessDocumentStart(r,
                    IF r.entry = "minify" THEN NoOptions
                    ELSE [saveAsNewFile |-> TRUE, filePrefix |-> r.opts.filePrefix,
                          debugSource |-> "manual"]))
  /\ UNCHANGED <<probe, cfg, listening, docs, docText, dirty, fs, shown, pendingSaves, userOps>>

\* ------------------------------------------------------- the save handler
\* the guard entry added before the branch on minifyInNewFile
onSaveMinifyStart_guardFirst(d) ==
  LET r == [NewInv("save", d) EXCEPT !.text = docText[d],
                                     !.fileType = docs[d].languageId]
  IN IF ~validateContentLength(r.text) THEN [showErrorMessage(r, "validators.content.empty") EXCEPT !.pc = "done"]
     ELSE IF cfg.minifyInNewFile
          THEN [ProcessDocumentStart(r, [saveAsNewFile |-> TRUE,
                                         filePrefix |-> cfg.minifiedNewFilePrefix,
                                         debugSource |-> "none"])
                  EXCEPT !.guarded = TRUE]
          ELSE LET g == GetMinifiedTextStart([r EXCEPT !.guarded = TRUE])
               IN IF g.pc = "null" THEN AfterNull(g) ELSE g

\* onSaveMinify from its first line to its first await
onSaveMinifyStart(d) ==
  LET r == [NewInv("save", d) EXCEPT !.text = docText[d],
                                     !.fileType = docs[d].languageId]
  IN IF ~validateContentLength(r.text) THEN [showErrorMessage(r, "validators.content.empty") EXCEPT !.pc = "done"]
     ELSE IF cfg.minifyInNewFile
          THEN ProcessDocumentStart(r, [saveAsNewFile |-> TRUE,
                                        filePrefix |-> cfg.minifiedNewFilePrefix,
                                        debugSource |-> "none"])
          ELSE LET g == GetMinifiedTextStart([r EXCEPT !.guarded = TRUE])
               IN IF g.pc = "null" THEN AfterNull(g) ELSE g

\* one flag for all documents instead of an entry per document
IsProcessing_anyDocument(d) == processingDocuments # {}

\* the recursion check left out
IsProcessing_never(d) == FALSE

\* the recursion check at the head of onSaveMinify
IsProcessing(d) == d \in processingDocuments

\* the host delivers one onDidSaveTextDocument event of document d
DeliverSave(d) ==
  /\ pendingSaves[d] > 0
  /\ pendingSaves' = [pendingSaves EXCEPT ![d] = @ - 1]
  /\ IF ~listening \/ IsProcessing(d)
        \/ docs[d].languageId \notin {"css", "javascript"}
     THEN UNCHANGED <<inv, net, processingDocuments>>
     ELSE /\ Len(inv) < MaxInv
          /\ Commit(Len(inv) + 1, onSaveMinifyStart(d))
  /\ UNCHANGED <<probe, cfg, listening, docs, docText, dirty, fs, shown, userOps>>

\* ------------------------------------------------------------ the network
\* the race taken to be open as long as the request is the invocation's last
Awaited_lastRequest(q) == inv[net[q].inv].req = q

\* a response handled although the race is over
Awaited_afterRace(q) == inv[net[q].inv].req = q /\ inv[net[q].inv].pc \in {"race", "done"}

\* request q is the one its invocation is waiting for in Promise.race
Awaited(q) == inv[net[q].inv].pc = "race" /\ inv[net[q].inv].req = q

\* getMinifiedText returning the bare body, of which '' is falsy
getMinifiedTextResult_bareString(body) ==
  IF body.bytes = 0 THEN NoResult ELSE [null |-> FALSE, minifiedText |-> body]

\* what getMinifiedText returns for a 200 response: an object holding the
\* body (and its statistics), truthy whatever the body is
getMinifiedTextResult(body) == [null |-> FALSE, minifiedText |-> body]

\* getMinifiedText from the settlement of the fetch on, and its caller up
\* to the next await: the result and the write-back branch for a 200
\* response, the error message and null for anything else
ResponseHandled(r, outcome, body) ==
  LET result == IF outcome = "ok" THEN getMinifiedTextResult(body) ELSE NoResult
  IN IF ~result.null
     THEN WriteBackStart([r EXCEPT !.minified = result.minifiedText])
     ELSE AfterNull([r EXCEPT !.errs = IF outcome = "ok" THEN @ ELSE @ + 1])

\* the fetch of request q settles: a 200 response with the given body
\* (outcome "ok"), a response that is not ok, or a rejection
fetchSettles(q, outcome, body) ==
  /\ q \in 1..Len(net)
  /\ net[q].fetch = "pending"
  /\ net' = [net EXCEPT ![q].fetch = "settled",
                         ![q].won = IF Awaited(q) THEN "fetch" ELSE @,
                         ![q].body = IF Awaited(q) /\ outcome = "ok" THEN body ELSE @]
  /\ IF Awaited(q)
     THEN LET i == net[q].inv
              n == ResponseHandled(inv[i], outcome, body)
          IN /\ inv' = [inv EXCEPT ![i] = n]
             /\ processingDocuments' = GuardAfter(n, processingDocuments)
     ELSE UNCHANGED <<inv, processingDocuments>>
  /\ UNCHANGED <<probe, cfg, listening, docs, docText, dirty, fs, shown, pendingSaves, userOps>>

\* the fetch of request q settles; a 200 response carries ResponseBody
Response(q, outcome) == fetchSettles(q, outcome, ResponseBody)

\* the timer of request q expires; every timer runs for API_TIMEOUT_MS, so the
\* timers expire in the order in which they were started
Timeout(q) ==
  /\ q \in 1..Len(net)
  /\ net[q].timer = "armed"
  /\ \A p \in 1..(q - 1) : net[p].timer = "fired"
  /\ net' = [net EXCEPT ![q].timer = "fired",
                         ![q].won = IF Awaited(q) THEN "timer" ELSE @]
  /\ IF Awaited(q)
     THEN LET i == net[q].inv
              n == AfterNull([inv[i] EXCEPT !.errs = @ + 1])
          IN /\ inv' = [inv EXCEPT ![i] = n]
             /\ processingDocuments' = GuardAfter(n, processingDocuments)
     ELSE UNCHANGED <<inv, processingDocuments>>
  /\ UNCHANGED <<probe, cfg, listening, docs, docText, dirty, fs, shown, pendingSaves, userOps>>

\* ---------------------------------------------------------- write-back
\* document.save() as the host performs it on document d: a dirty buffer is
\* persisted and onDidSaveTextDocument is raised, a clean one is left alone
SavedFs(d, text, isDirty) == IF isDirty THEN WriteTo(fs, docs[d].fileName, text) ELSE fs

SavedEvents(d, isDirty) == [pendingSaves EXCEPT ![d] = IF isDirty THEN @ + 1 ELSE @]

\* the edit made only if the document still holds the text that was read
applyEdit_ifUnchanged(r, current) == IF current = r.text THEN r.minified ELSE current

\* edit.replace(document.uri, fullDocumentRange, minifiedText): the buffer
\* after the edit, whatever it holds (current) when the edit is made
applyEdit(r, current) == r.minified

\* replaceDocumentContent up to the return of document.save(). applyEdit
\* resolves to true (applied) or to false, and its result is not looked at;
\* document.save() resolves to true, resolves to false (the save failed), or
\* throws; only a throw ends the function
replaceDocumentContentWith(i, applied, saved) ==
  /\ i \in 1..Len(inv)
  /\ inv[i].pc = "applyEdit"
  /\ LET d == inv[i].doc
         text == IF applied THEN applyEdit(inv[i], docText[d]) ELSE docText[d]
         isDirty == applied \/ dirty[d]
     IN /\ docText' = [docText EXCEPT ![d] = text]
        /\ IF saved = "true"
           THEN /\ fs' = SavedFs(d, text, isDirty)
                /\ pendingSaves' = SavedEvents(d, isDirty)
                /\ dirty' = [dirty EXCEPT ![d] = FALSE]
                /\ inv' = [inv EXCEPT ![i].pc = IF applied THEN "saved" ELSE "unsaved"]
                /\ UNCHANGED processingDocuments
           ELSE IF saved = "false"
           THEN /\ dirty' = [dirty EXCEPT ![d] = isDirty]
                /\ inv' = [inv EXCEPT ![i].pc = "unsaved"]
                /\ UNCHANGED <<fs, pendingSaves, processingDocuments>>
           ELSE /\ dirty' = [dirty EXCEPT ![d] = isDirty]
                /\ inv' = [inv EXCEPT ![i].pc = "rejected"]
                /\ processingDocuments' = GuardAfter(inv'[i], processingDocuments)
                /\ UNCHANGED <<fs, pendingSaves>>
  /\ UNCHANGED <<probe, cfg, listening, docs, shown, net, userOps>>

\* the same when the host applies the edit, and saves (ok) or throws (~ok)
replaceDocumentContent(i, ok) ==
  replaceDocumentContentWith(i, TRUE, IF ok THEN "true" ELSE "throws")

\* replaceDocumentContent resumes after document.save(): the success
\* message; the manual branch of processDocument then calls
\* saveDocumentSilently(document)
AfterSave(i) ==
  /\ i \in 1..Len(inv)
  /\ inv[i].pc \in {"saved", "unsaved"}
  /\ LET d == inv[i].doc
         r == [inv[i] EXCEPT !.infos = @ + 1, !.writes = @ + 1]
         manual == ~r.guarded /\ r.opts.debugSource = "manual"
         n == IF r.guarded THEN [r EXCEPT !.pc = "done"] ELSE ProcessReturn(r)
     IN /\ inv' = [inv EXCEPT ![i] = n]
        /\ processingDocuments' = GuardAfter(n, processingDocuments)
        /\ fs' = IF manual THEN SavedFs(d, docText[d], dirty[d]) ELSE fs
        /\ pendingSaves' = IF manual THEN SavedEvents(d, dirty[d]) ELSE pendingSaves
        /\ dirty' = IF manual THEN [dirty EXCEPT ![d] = FALSE] ELSE dirty
  /\ UNCHANGED <<probe, cfg, listening, docs, docText, shown, net, userOps>>

\* the new file opened whatever the setting says
AutoOpen_always(target) == shown \cup {target}

\* if (autoOpenNewFile) await vscode.window.showTextDocument(uri)
AutoOpen(target) == IF cfg.autoOpenNewFile THEN shown \cup {target} ELSE shown

\* saveAsNewFile: fs.writeFile (ok, or it throws), showTextDocument when
\* autoOpenNewFile is set, then the success message
saveAsNewFile(i, ok) ==
  /\ i \in 1..Len(inv)
  /\ inv[i].pc = "writeFile"
  /\ IF ok
     THEN /\ fs' = WriteTo(fs, inv[i].target, inv[i].minified)
          /\ shown' = AutoOpen(inv[i].target)
          /\ inv' = [inv EXCEPT ![i] =
                       ProcessReturn([inv[i] EXCEPT !.writes = @ + 1, !.infos = @ + 1])]
     ELSE /\ inv' = [inv EXCEPT ![i].pc = "rejected"]
          /\ UNCHANGED <<fs, shown>>
  /\ UNCHANGED <<probe, cfg, listening, docs, docText, dirty, processingDocuments,
                 pendingSaves, net, userOps>>

\* ------------------------------------------------------------------ Next
Next ==
  \/ \E d \in Docs : UserSave(d)
  \/ \E d \in Docs : minifyCommand(d)
  \/ \E d \in Docs : minifyInNewFileCommand(d)
  \/ \E i \in 1..MaxInv : OpenDoc(i)
  \/ \E d \in Docs : DeliverSave(d)
  \/ \E q \in 1..(2 * MaxInv), o \in FetchOutcomes : Response(q, o)
  \/ \E q \in 1..(2 * MaxInv) : Timeout(q)
  \/ \E i \in 1..MaxInv, ok \in BOOLEAN : replaceDocumentContent(i, ok)
  \/ \E i \in 1..MaxInv : AfterSave(i)
  \/ \E i \in 1..MaxInv, ok \in BOOLEAN : saveAsNewFile(i, ok)

Spec == Init /\ [][Next]_vars

\* the same system when a 200 response carries any of Bodies
NextBodies ==
  \/ \E d \in Docs : UserSave(d)
  \/ \E d \in Docs : minifyCommand(d)
  \/ \E d \in Docs : minifyInNewFileCommand(d)
  \/ \E i \in 1..MaxInv : OpenDoc(i)
  \/ \E d \in Docs : DeliverSave(d)
  \/ \E q \in 1..(2 * MaxInv), o \in FetchOutcomes, b \in Bodies : fetchSettles(q, o, b)
  \/ \E q \in 1..(2 * MaxInv) : Timeout(q)
  \/ \E i \in 1..MaxInv, ok \in BOOLEAN : replaceDocumentContent(i, ok)
  \/ \E i \in 1..MaxInv : AfterSave(i)
  \/ \E i \in 1..MaxInv, ok \in BOOLEAN : saveAsNewFile(i, ok)

\* activation with a css document of 32 bytes open and autoOpenNewFile off
InitBodies ==
  /\ Init
  /\ ~cfg.autoOpenNewFile
  /\ \A d \in Docs : docs[d].languageId = "css" /\ docs[d].bytes = 32

SpecBodies == InitBodies /\ [][NextBodies]_vars

\* the boolean settings of css-js-minifier
BooleanSettings == {"minifyOnSave", "minifyInNewFile", "autoOpenNewFile"}

\* the user changes a setting; the extension registers no
\* onDidChangeConfiguration handler, and every later
\* workspace.getConfiguration(...).get(key) returns the new value
changeConfiguration(key, value) ==
  /\ cfg[key] # value
  /\ cfg' = [cfg EXCEPT ![key] = value]
  /\ UNCHANGED <<probe, listening, docs, docText, dirty, fs, shown, processingDocuments,
                 pendingSaves, inv, net, userOps>>

\* the same system when the user also changes settings while it runs
NextCfg ==
  \/ \E d \in Docs : UserSave(d)
  \/ \E d \in Docs : minifyCommand(d)
  \/ \E d \in Docs : minifyInNewFileCommand(d)
  \/ \E i \in 1..MaxInv : OpenDoc(i)
  \/ \E d \in Docs : DeliverSave(d)
  \/ \E q \in 1..(2 * MaxInv), o \in FetchOutcomes : Response(q, o)
  \/ \E q \in 1..(2 * MaxInv) : Timeout(q)
  \/ \E i \in 1..MaxInv, ok \in BOOLEAN : replaceDocumentContent(i, ok)
  \/ \E i \in 1..MaxInv : AfterSave(i)
  \/ \E i \in 1..MaxInv, ok \in BOOLEAN : saveAsNewFile(i, ok)
  \/ \E key \in BooleanSettings, value \in BOOLEAN : changeConfiguration(key, value)

SpecCfg == Init /\ [][NextCfg]_vars

\* ---------------------------------------------- texts around the ceiling
\* UTF-8 sizes of the css text in the document: none, one byte, the ceiling
\* and one byte to either side of it
Sizes == {0, 1, MAX_FILE_SIZE_BYTES - 1, MAX_FILE_SIZE_BYTES, MAX_FILE_SIZE_BYTES + 1}

\* activation with a css document of one of these sizes open
InitSizes ==
  /\ cfg \in [minifyOnSave : BOOLEAN, minifyInNewFile : BOOLEAN,
              minifiedNewFilePrefix : Prefixes, autoOpenNewFile : {FALSE}]
  /\ listening = cfg.minifyOnSave
  /\ \E size \in [Docs -> Sizes] :
       docs = [d \in Docs |-> [languageId |-> "css", fileName |-> <<d, ".css">>,
                               bytes |-> size[d]]]
  /\ docText = [d \in Docs |-> [v |-> "src", bytes |-> docs[d].bytes]]
  /\ dirty = [d \in Docs |-> FALSE]
  /\ fs = [p \in {docs[d].fileName : d \in Docs} |->
             docText[CHOOSE e \in Docs : docs[e].fileName = p]]
  /\ shown = {}
  /\ processingDocuments = {}
  /\ pendingSaves = [d \in Docs |-> 0]
  /\ inv = <<>>
  /\ net = <<>>
  /\ userOps = 0
  /\ probe = NoProbe

SpecSizes == InitSizes /\ [][Next]_vars

\* ------------------------------------------------------- two documents
TwoDocs == {"a", "b"}

\* the server's answer to a request: the minified form of the text sent
MinifiedOf(text) == [v |-> <<"min", text.v[2]>>, bytes |-> 25]

\* activation with two css documents open, both edited and not yet saved
InitTwo ==
  /\ cfg \in [minifyOnSave : {TRUE}, minifyInNewFile : BOOLEAN,
              minifiedNewFilePrefix : Prefixes, autoOpenNewFile : {FALSE}]
  /\ listening = cfg.minifyOnSave
  /\ docs = [d \in TwoDocs |-> [languageId |-> "css", fileName |-> <<d, ".css">>,
                                bytes |-> 32]]
  /\ docText = [d \in TwoDocs |-> [v |-> <<"src", d>>, bytes |-> 32]]
  /\ dirty = [d \in TwoDocs |-> TRUE]
  /\ fs = [p \in {docs[d].fileName : d \in TwoDocs} |-> [v |-> <<"old", p[1]>>, bytes |-> 30]]
  /\ shown = {}
  /\ processingDocuments = {}
  /\ pendingSaves = [d \in TwoDocs |-> 0]
  /\ inv = <<>>
  /\ net = <<>>
  /\ userOps = 0
  /\ probe = NoProbe

\* the user saves a document that has unsaved changes
SaveDirty(d) ==
  /\ dirty[d]
  /\ fs' = WriteTo(fs, docs[d].fileName, docText[d])
  /\ dirty' = [dirty EXCEPT ![d] = FALSE]
  /\ pendingSaves' = [pendingSaves EXCEPT ![d] = @ + 1]
  /\ UNCHANGED <<probe, cfg, listening, docs, docText, shown, processingDocuments, inv, net,
                 userOps>>

NextTwo ==
  \/ \E d \in TwoDocs : SaveDirty(d)
  \/ \E d \in TwoDocs : DeliverSave(d)
  \/ \E q \in 1..Len(net), o \in FetchOutcomes :
       fetchSettles(q, o, MinifiedOf(inv[net[q].inv].text))
  \/ \E q \in 1..Len(net) : Timeout(q)
  \/ \E i \in 1..Len(inv), ok \in BOOLEAN : replaceDocumentContent(i, ok)
  \/ \E i \in 1..Len(inv) : AfterSave(i)
  \/ \E i \in 1..Len(inv), ok \in BOOLEAN : saveAsNewFile(i, ok)

SpecTwo == InitTwo /\ [][NextTwo]_vars

\* ------------------------------------- a command on a saved document
\* activation with minify on save set and one css document open, edited and
\* not yet saved
InitOne ==
  /\ cfg \in [minifyOnSave : {TRUE}, minifyInNewFile : BOOLEAN,
              minifiedNewFilePrefix : Prefixes, autoOpenNewFile : {FALSE}]
  /\ listening = cfg.minifyOnSave
  /\ docs = [d \in Docs |-> [languageId |-> "css", fileName |-> <<d, ".css">>,
                             bytes |-> 32]]
  /\ docText = [d \in Docs |-> [v |-> <<"src", d>>, bytes |-> 32]]
  /\ dirty = [d \in Docs |-> TRUE]
  /\ fs = [p \in {docs[d].fileName : d \in Docs} |-> [v |-> <<"old", p[1]>>, bytes |-> 30]]
  /\ shown = {}
  /\ processingDocuments = {}
  /\ pendingSaves = [d \in Docs |-> 0]
  /\ inv = <<>>
  /\ net = <<>>
  /\ userOps = 0
  /\ probe = NoProbe

\* the same with minifyInNewFile off
InitManual == InitOne /\ ~cfg.minifyInNewFile

NextManual ==
  \/ \E d \in Docs : SaveDirty(d)
  \/ \E d \in Docs : minifyCommand(d)
  \/ \E d \in Docs : minifyInNewFileCommand(d)
  \/ \E i \in 1..Len(inv) : OpenDoc(i)
  \/ \E d \in Docs : DeliverSave(d)
  \/ \E q \in 1..Len(net), o \in FetchOutcomes :
       fetchSettles(q, o, MinifiedOf(inv[net[q].inv].text))
  \/ \E q \in 1..Len(net) : Timeout(q)
  \/ \E i \in 1..Len(inv), ok \in BOOLEAN : replaceDocumentContent(i, ok)
  \/ \E i \in 1..Len(inv) : AfterSave(i)
  \/ \E i \in 1..Len(inv), ok \in BOOLEAN : saveAsNewFile(i, ok)

SpecManual == InitManual /\ [][NextManual]_vars

\* ------------------------------------ the response body as its own step
\* the fetch of request q resolves with a response: status line and headers
\* are in, the body is not; getMinifiedText goes on to await response.text()
\* (response.json() when the response is not ok), outside Promise.race
fetchResolves(q) ==
  /\ q \in 1..Len(net)
  /\ net[q].fetch = "pending"
  /\ net' = [net EXCEPT ![q].fetch = "settled",
                         ![q].won = IF Awaited(q) THEN "fetch" ELSE @]
  /\ inv' = IF Awaited(q) THEN [inv EXCEPT ![net[q].inv].pc = "body"] ELSE inv
  /\ UNCHANGED <<probe, cfg, listening, docs, docText, dirty, fs, shown, pendingSaves,
                 userOps, processingDocuments>>

\* the fetch of request q rejects
fetchRejects(q) == fetchSettles(q, "neterr", EmptyBody)

\* the body of the response has arrived: response.text() or response.json()
\* settles
bodyRead(i, outcome) ==
  /\ i \in 1..Len(inv)
  /\ inv[i].pc = "body"
  /\ LET n == ResponseHandled(inv[i], outcome, MinifiedOf(inv[i].text))
     IN /\ inv' = [inv EXCEPT ![i] = n]
        /\ processingDocuments' = GuardAfter(n, processingDocuments)
  /\ UNCHANGED <<probe, cfg, listening, docs, docText, dirty, fs, shown, pendingSaves,
                 userOps, net>>

NextLive ==
  \/ \E d \in Docs : SaveDirty(d)
  \/ \E d \in Docs : minifyCommand(d)
  \/ \E d \in Docs : minifyInNewFileCommand(d)
  \/ \E i \in 1..Len(inv) : OpenDoc(i)
  \/ \E d \in Docs : DeliverSave(d)
  \/ \E q \in 1..Len(net) : fetchResolves(q)
  \/ \E q \in 1..Len(net) : fetchRejects(q)
  \/ \E i \in 1..Len(inv), o \in {"ok", "http"} : bodyRead(i, o)
  \/ \E q \in 1..Len(net) : Timeout(q)
  \/ \E i \in 1..Len(inv), ok \in BOOLEAN : replaceDocumentContent(i, ok)
  \/ \E i \in 1..Len(inv) : AfterSave(i)
  \/ \E i \in 1..Len(inv), ok \in BOOLEAN : saveAsNewFile(i, ok)

\* the timers run, and the host delivers its events, opens documents and
\* completes its file operations; nothing is assumed of the remote endpoint
\* or of the user
FairLive ==
  /\ WF_vars(\E q \in 1..Len(net) : Timeout(q))
  /\ WF_vars(\E d \in Docs : DeliverSave(d))
  /\ WF_vars(\E i \in 1..Len(inv) : OpenDoc(i))
  /\ WF_vars(\E i \in 1..Len(inv), ok \in BOOLEAN : replaceDocumentContent(i, ok))
  /\ WF_vars(\E i \in 1..Len(inv) : AfterSave(i))
  /\ WF_vars(\E i \in 1..Len(inv), ok \in BOOLEAN : saveAsNewFile(i, ok))

SpecLive == InitOne /\ [][NextLive]_vars /\ FairLive

\* ------------------------------------------ edits during an invocation
\* the server's answer when the texts sent may differ: the minified form
\* names the text it was made from; minified text is returned as it is
minify(text) ==
  IF text.v[1] = "min" THEN text ELSE [v |-> <<"min">> \o text.v, bytes |-> 25]

\* the user types in the document
UserEdit(d) ==
  /\ userOps < MaxUserOps
  /\ userOps' = userOps + 1
  /\ docText' = [docText EXCEPT ![d] = [v |-> <<"edit", d>>, bytes |-> 33]]
  /\ dirty' = [dirty EXCEPT ![d] = TRUE]
  /\ UNCHANGED <<probe, cfg, listening, docs, fs, shown, processingDocuments, pendingSaves,
                 inv, net>>

NextEdit ==
  \/ \E d \in Docs : UserEdit(d)
  \/ \E d \in Docs : SaveDirty(d)
  \/ \E d \in Docs : DeliverSave(d)
  \/ \E q \in 1..Len(net), o \in FetchOutcomes :
       fetchSettles(q, o, minify(inv[net[q].inv].text))
  \/ \E q \in 1..Len(net) : Timeout(q)
  \/ \E i \in 1..Len(inv), ok \in BOOLEAN : replaceDocumentContent(i, ok)
  \/ \E i \in 1..Len(inv) : AfterSave(i)
  \/ \E i \in 1..Len(inv), ok \in BOOLEAN : saveAsNewFile(i, ok)

SpecEdit == InitOne /\ [][NextEdit]_vars

\* ------------------------------------- the results of applyEdit and save
\* the write-back when the host may also answer false: applyEdit resolving
\* to false (the edit was not applied) and document.save() resolving to
\* false (the document was not saved)
SaveResults == {"true", "false", "throws"}

NextWrite ==
  \/ \E d \in Docs : SaveDirty(d)
  \/ \E d \in Docs : minifyCommand(d)
  \/ \E i \in 1..Len(inv) : OpenDoc(i)
  \/ \E d \in Docs : DeliverSave(d)
  \/ \E q \in 1..Len(net), o \in FetchOutcomes :
       fetchSettles(q, o, MinifiedOf(inv[net[q].inv].text))
  \/ \E q \in 1..Len(net) : Timeout(q)
  \/ \E i \in 1..Len(inv), applied \in BOOLEAN, saved \in SaveResults :
       replaceDocumentContentWith(i, applied, saved)
  \/ \E i \in 1..Len(inv) : AfterSave(i)

SpecWrite == InitManual /\ [][NextWrite]_vars

\* ------------------------------ saves while minifyInNewFile is switched
\* the save handler alone: the user saves the document, once more at any
\* time, and switches minifyInNewFile on and off
NextSaves ==
  \/ \E d \in Docs : SaveDirty(d)
  \/ \E d \in Docs : UserSave(d)
  \/ \E d \in Docs : DeliverSave(d)
  \/ \E q \in 1..Len(net), o \in FetchOutcomes :
       fetchSettles(q, o, MinifiedOf(inv[net[q].inv].text))
  \/ \E q \in 1..Len(net) : Timeout(q)
  \/ \E i \in 1..Len(inv), ok \in BOOLEAN : replaceDocumentContent(i, ok)
  \/ \E i \in 1..Len(inv) : AfterSave(i)
  \/ \E i \in 1..Len(inv), ok \in BOOLEAN : saveAsNewFile(i, ok)
  \/ \E value \in BOOLEAN : changeConfiguration("minifyInNewFile", value)

SpecSaves == InitOne /\ [][NextSaves]_vars

TypeOK ==
  /\ processingDocuments \subseteq Docs
  /\ Len(inv) <= MaxInv
  /\ \A i \in 1..Len(inv) : inv[i].pc \in
       {"race", "body", "openDoc", "applyEdit", "saved", "unsaved", "writeFile", "done",
        "rejected"}
\* ------------------------------------------- pure functions under a probe
\* the system part of a state in which only a pure function is examined:
\* default settings (package.json), one css document, nothing in flight
Quiet ==
  /\ cfg = [minifyOnSave |-> FALSE, minifyInNewFile |-> FALSE,
            minifiedNewFilePrefix |-> <<".min">>, autoOpenNewFile |-> FALSE]
  /\ listening = FALSE
  /\ docs = [d \in Docs |-> [languageId |-> "css", fileName |-> <<d, ".css">>, bytes |-> 32]]
  /\ docText = [d \in Docs |-> [v |-> "src", bytes |-> 32]]
  /\ dirty = [d \in Docs |-> FALSE]
  /\ fs = [p \in {<<d, ".css">> : d \in Docs} |-> [v |-> "src", bytes |-> 32]]
  /\ shown = {}
  /\ processingDocuments = {}
  /\ pendingSaves = [d \in Docs |-> 0]
  /\ inv = <<>>
  /\ net = <<>>
  /\ userOps = 0

system == <<cfg, listening, docs, docText, dirty, fs, shown, processingDocuments,
            pendingSaves, inv, net, userOps>>

\* a text is a sequence of phrases; String.prototype.includes
Includes(text, phrase) == \E k \in 1..Len(text) : text[k] = phrase

\* MINIFICATION_APIS[fileType].name
ApiName(fileType) == IF fileType = "css" THEN "CSS Minifier" ELSE "JavaScript Minifier"

RateLimitPhrase == "API allows 30 requests per minute."

\* the status-based messages of the switch on response.status
statusMessage(status, statusText, fileType) ==
  CASE status = 400 -> <<"Missing input parameter.", "Please ensure the file has content.">>
    [] status = 405 -> <<"Invalid request method.", "This is an internal error, please try again.">>
    [] status = 406 -> <<"Invalid content type.", "This is an internal error, please try again.">>
    [] status = 413 -> <<"File too large.", "Maximum allowed size is 5MB.">>
    [] status = 422 -> <<"Invalid", fileType, "syntax.">>
    [] status = 429 -> <<"Rate limit exceeded.", RateLimitPhrase,
                         "Please wait a moment and try again.">>
    [] OTHER -> <<ApiName(fileType), "API error", ToString(status), statusText>>

\* the message of the Error thrown for a response that is not ok: the detail
\* of a JSON body when it has one, '' when the JSON body has none, and the
\* status table only when response.json() throws
errorMessageOf(response, fileType) ==
  IF response.json
  THEN response.detail
  ELSE statusMessage(response.status, response.statusText, fileType)

\* the catch block of getMinifiedText: the notification shown for an Error
\* with message errorMessage
userMessage(errorMessage, fileType) ==
  IF Includes(errorMessage, "timed out after")
  THEN [key |-> "minificationService.error.timeout", args |-> <<<<ApiName(fileType)>>>>]
  ELSE IF Includes(errorMessage, "Failed to fetch") \/ Includes(errorMessage, "fetch")
       THEN [key |-> "minificationService.error.network", args |-> <<>>]
       ELSE [key |-> "minificationService.error.generic",
             args |-> <<<<fileType>>, errorMessage>>]

\* the statuses, status texts and bodies of the responses examined; a JSON
\* body without errors[0].detail (or with an empty one) has detail <<>>
Statuses == {400, 405, 406, 413, 422, 429, 500}
StatusTexts == {"", "Error"}
Details == {<<>>, <<"Unexpected token">>, <<"Could not", "fetch", "the input">>}
Responses ==
  [status : Statuses, statusText : StatusTexts, json : {TRUE}, detail : Details]
  \cup [status : Statuses, statusText : StatusTexts, json : {FALSE}, detail : {<<>>}]

NoMessage == [key |-> "none", args |-> <<>>]

InitHttp ==
  /\ Quiet
  /\ \E r \in Responses, t \in SUPPORTED_FILE_TYPES :
       probe = [fn |-> "getMinifiedText", response |-> r, fileType |-> t,
                shown |-> NoMessage]

\* getMinifiedText from `if (!response.ok)` to showErrorMessage
handleErrorResponse ==
  /\ probe.fn = "getMinifiedText"
  /\ probe.shown = NoMessage
  /\ probe' = [probe EXCEPT !.shown =
                 userMessage(errorMessageOf(probe.response, probe.fileType), probe.fileType)]
  /\ UNCHANGED system

NextHttp == handleErrorResponse

SpecHttp == InitHttp /\ [][NextHttp]_vars

\* ------------------------------------------- getMinifiedText (the catch)
\* the message of the Error the timer rejects with:
\* `${apiConfig.name} API request timed out after ${API_TIMEOUT_MS}ms`
timeoutMessage(fileType) ==
  <<ApiName(fileType), "API request", "timed out after", ToString(API_TIMEOUT_MS), "ms">>

\* messages of the Error a fetch rejects with when no response arrives; the
\* text is the platform's: Node's fetch, a browser's fetch, a socket error
FetchRejections ==
  {<<"fetch", "failed">>, <<"Failed to fetch">>, <<"getaddrinfo ENOTFOUND">>}

\* what ended the race without an ok response
Failures ==
  [cause : {"timer"}] \cup [cause : {"network"}, message : FetchRejections]
  \cup [cause : {"status"}, response : Responses]

\* the message of the Error that reaches the catch block
thrownMessage(failure, fileType) ==
  CASE failure.cause = "timer" -> timeoutMessage(fileType)
    [] failure.cause = "network" -> failure.message
    [] failure.cause = "status" -> errorMessageOf(failure.response, fileType)

InitFailure ==
  /\ Quiet
  /\ \E f \in Failures, t \in SUPPORTED_FILE_TYPES :
       probe = [fn |-> "getMinifiedText(catch)", failure |-> f, fileType |-> t,
                shown |-> NoMessage]

\* getMinifiedText from the end of the race to showErrorMessage
catchFailure ==
  /\ probe.fn = "getMinifiedText(catch)"
  /\ probe.shown = NoMessage
  /\ probe' = [probe EXCEPT !.shown =
                 userMessage(thrownMessage(probe.failure, probe.fileType), probe.fileType)]
  /\ UNCHANGED system

NextFailure == catchFailure

SpecFailure == InitFailure /\ [][NextFailure]_vars

\* ------------------------------------------------ calculateStats (numbers)
\* JavaScript numbers are IEEE 754 binary64. A positive value is held as
\* [sig, exp]: sig is the significand, a sequence of Precision bits with the
\* most significant (a 1) first, and exp is the binary exponent of that
\* first bit.
Precision == 53
MaxSize == 40

Zeros(k) == [j \in 1..k |-> 0]

\* the number the first k bits stand for
RECURSIVE NatOf(_, _)
NatOf(bits, k) == IF k = 0 THEN 0 ELSE 2 * NatOf(bits, k - 1) + bits[k]

AnyOne(bits) == \E k \in 1..Len(bits) : bits[k] = 1

\* the bits k..1 (from the right) of a + b + carry put before acc, for bit
\* sequences of the same length (no carry leaves the first bit for the
\* lengths used)
RECURSIVE AddFrom(_, _, _, _, _)
AddFrom(a, b, k, carry, acc) ==
  IF k = 0 \/ Len(acc) < 0 THEN acc
  ELSE IF a[k] + b[k] + carry >= 2
       THEN AddFrom(a, b, k - 1, 1, <<a[k] + b[k] + carry - 2>> \o acc)
       ELSE AddFrom(a, b, k - 1, 0, <<a[k] + b[k] + carry>> \o acc)

AddBits(a, b) == AddFrom(a, b, Len(a), 0, <<>>)

\* bits without its leading zeros (bits has a 1)
StripZeros(bits) ==
  SubSeq(bits, CHOOSE k \in 1..Len(bits) : bits[k] = 1 /\ \A j \in 1..(k - 1) : bits[j] = 0,
         Len(bits))

\* round to nearest, ties to even: bits (first one 1, at least Precision of
\* them) and a flag for non-zero digits beyond them, to a binary64 value
\* whose first bit has exponent exp
RoundToEven(bits, sticky, exp) ==
  LET keep == SubSeq(bits, 1, Precision)
      rest == SubSeq(bits, Precision + 1, Len(bits))
      guard == rest # <<>> /\ rest[1] = 1
      more == sticky \/ (Len(rest) > 1 /\ AnyOne(SubSeq(rest, 2, Len(rest))))
      up == guard /\ (more \/ keep[Precision] = 1)
  IN IF ~up THEN [sig |-> keep, exp |-> exp]
     ELSE IF ~(\E k \in 1..Precision : keep[k] = 0)
          THEN [sig |-> <<1>> \o Zeros(Precision - 1), exp |-> exp + 1]
          ELSE [sig |-> AddBits(keep, Zeros(Precision - 1) \o <<1>>), exp |-> exp]

\* the smallest t with x * 2^t >= y
RECURSIVE ShiftUp(_, _)
ShiftUp(x, y) == IF x >= y THEN 0 ELSE 1 + ShiftUp(2 * x, y)

\* k further quotient bits of r / d by long division, and what is left
RECURSIVE LongDiv(_, _, _, _)
LongDiv(r, d, k, acc) ==
  IF k = 0 \/ Len(acc) < 0 THEN [bits |-> acc, rem |-> r]
  ELSE IF 2 * r >= d THEN LongDiv(2 * r - d, d, k - 1, Append(acc, 1))
       ELSE LongDiv(2 * r, d, k - 1, Append(acc, 0))

\* n / o in binary64, for integers n > 0 and o > 0
Divide(n, o) ==
  LET up == ShiftUp(n, o)             \* n * 2^up is in [o, 2 * o) when n < o
      down == ShiftUp(o, n + 1) - 1   \* o * 2^down is in (n / 2, n] when n >= o
      num == IF n < o THEN n * 2^up ELSE n
      den == IF n < o THEN o ELSE o * 2^down
      q == LongDiv(num - den, den, Precision, <<1>>)
  IN RoundToEven(q.bits, q.rem # 0, IF n < o THEN 0 - up ELSE down)

\* x * 100 in binary64: 100 = 64 + 32 + 4
Times100(x) ==
  LET a == <<0>> \o x.sig \o Zeros(6)
      b == <<0, 0>> \o x.sig \o Zeros(5)
      c == <<0, 0, 0, 0, 0>> \o x.sig \o Zeros(2)
      product == AddBits(AddBits(a, b), c)
      bits == StripZeros(product)
  IN RoundToEven(bits, FALSE, x.exp + (Len(bits) - Precision))

\* Math.floor of a positive binary64 value: rounding by cutting the fraction
MathRound_floor(x, negative) ==
  IF x.exp < 0 THEN 0
  ELSE (IF negative THEN 0 - 1 ELSE 1) * NatOf(x.sig, x.exp + 1)

\* Math.round of a binary64 value of magnitude x: the nearest integer, a tie
\* going to the larger one (floor(y + 0.5)); -0 is 0
MathRound(x, negative) ==
  IF x.exp < 0 - 1 THEN 0
  ELSE LET whole == NatOf(x.sig, x.exp + 1)
           half == x.exp + 2 <= Precision /\ x.sig[x.exp + 2] = 1
           beyond == x.exp + 3 <= Precision
                     /\ AnyOne(SubSeq(x.sig, x.exp + 3, Precision))
       IN IF negative
          THEN 0 - (whole + IF half /\ beyond THEN 1 ELSE 0)
          ELSE whole + IF half THEN 1 ELSE 0

Finite(p) == [kind |-> "finite", value |-> p]

\* reductionPercent as calculateStats computes it:
\* Math.round(((originalSize - minifiedSize) / originalSize) * 100)
reductionPercent(originalSize, minifiedSize) ==
  LET n == originalSize - minifiedSize
      m == IF n < 0 THEN 0 - n ELSE n
  IN IF originalSize = 0
     THEN IF n = 0 THEN [kind |-> "NaN", value |-> 0]
          ELSE [kind |-> "-Infinity", value |-> 0]
     ELSE IF n = 0 THEN Finite(0)
          ELSE Finite(MathRound(Times100(Divide(m, originalSize)), n < 0))

NoStats == [kind |-> "none", value |-> 0]

InitStats ==
  /\ Quiet
  /\ \E o \in 0..MaxSize, m \in 0..MaxSize :
       probe = [fn |-> "calculateStats", originalSize |-> o, minifiedSize |-> m,
                reductionPercent |-> NoStats]

\* calculateStats applied to the sizes of the two texts
calculateStats ==
  /\ probe.fn = "calculateStats"
  /\ probe.reductionPercent = NoStats
  /\ probe' = [probe EXCEPT !.reductionPercent =
                 reductionPercent(probe.originalSize, probe.minifiedSize)]
  /\ UNCHANGED system

NextStats == calculateStats

SpecStats == InitStats /\ [][NextStats]_vars

\* ------------------------------------------- calculateStats (the texts)
\* a text is a sequence of characters; the characters of these texts are
\* ASCII, one byte each in UTF-8

\* the length with a terminator counted
byteLength_withTerminator(text) == Len(text) + 1

\* new TextEncoder().encode(text).length
byteLength(text) == Len(text)

\* (bytes / 1024).toFixed(2): bytes / 1024 is exact in binary64 and toFixed
\* takes the nearest hundredth, the larger one of two equally near
toFixed2(bytes) ==
  LET h == (200 * bytes + 1024) \div 2048
  IN <<ToString(h \div 100), ".", ToString((h % 100) \div 10), ToString(h % 10)>>

\* the kilobyte form taken from 1000 bytes on
formatBytes_from1000(bytes) ==
  IF bytes < 1000 THEN <<ToString(bytes), " B">> ELSE toFixed2(bytes) \o <<" KB">>

formatBytes(bytes) ==
  IF bytes < 1024 THEN <<ToString(bytes), " B">> ELSE toFixed2(bytes) \o <<" KB">>

\* the MinificationStats of two sizes
Stats(originalSize, minifiedSize) ==
  [originalSize |-> originalSize, minifiedSize |-> minifiedSize,
   reductionPercent |-> reductionPercent(originalSize, minifiedSize),
   originalSizeKB |-> formatBytes(originalSize),
   minifiedSizeKB |-> formatBytes(minifiedSize)]

StatsPending ==
  [originalSize |-> 0, minifiedSize |-> 0, reductionPercent |-> NoStats,
   originalSizeKB |-> <<>>, minifiedSizeKB |-> <<>>]

\* body { color: red; margin: 0; }
ExampleInput ==
  <<"b", "o", "d", "y", " ", "{", " ", "c", "o", "l", "o", "r", ":", " ", "r", "e",
    "d", ";", " ", "m", "a", "r", "g", "i", "n", ":", " ", "0", ";", " ", "}">>

\* body{color:red;margin:0}
ExampleOutput ==
  <<"b", "o", "d", "y", "{", "c", "o", "l", "o", "r", ":", "r", "e", "d", ";", "m",
    "a", "r", "g", "i", "n", ":", "0", "}">>

Heads(text) == {SubSeq(text, 1, k) : k \in 0..Len(text)}

InitTexts ==
  /\ Quiet
  /\ \E o \in Heads(ExampleInput), m \in Heads(ExampleOutput) :
       probe = [fn |-> "calculateStats(texts)", originalText |-> o, minifiedText |-> m,
                step |-> "called", stats |-> StatsPending]

\* calculateStats(originalText, minifiedText)
calculateStatsOfTexts ==
  /\ probe.fn = "calculateStats(texts)"
  /\ probe.step = "called"
  /\ probe' = [probe EXCEPT !.step = "returned",
                            !.stats = Stats(byteLength(probe.originalText),
                                            byteLength(probe.minifiedText))]
  /\ UNCHANGED system

NextTexts == calculateStatsOfTexts

SpecTexts == InitTexts /\ [][NextTexts]_vars

\* ------------------------------------------- formatBytes
MaxBytes == 2200
\* every size up to MaxBytes, and the largest size a request is made for
ByteCounts == 0..MaxBytes \cup {MAX_FILE_SIZE_BYTES}

InitFormat ==
  /\ Quiet
  /\ \E n \in ByteCounts :
       probe = [fn |-> "formatBytes", bytes |-> n, step |-> "called", result |-> <<>>]

\* formatBytes(bytes)
formatBytesCall ==
  /\ probe.fn = "formatBytes"
  /\ probe.step = "called"
  /\ probe' = [probe EXCEPT !.step = "returned", !.result = formatBytes(probe.bytes)]
  /\ UNCHANGED system

NextFormat == formatBytesCall

SpecFormat == InitFormat /\ [][NextFormat]_vars

\* ------------------------------------------- formatSizeReductionMessage
MaxShownSize == 4
\* a setting of the user: not set, or set to true or to false
SettingValues == {"undefined", "true", "false"}
ShownNames == {"a.css", "a.min.css"}

\* config.get(key, defaultValue)
configGet(value, defaultValue) == IF value = "undefined" THEN defaultValue ELSE value = "true"

\* a number inside a template literal
percentText(p) == IF p.kind = "finite" THEN ToString(p.value) ELSE p.kind

\* the statistics shown whatever showSizeReduction says
formatSizeReductionMessage_always(fileName, stats, isNewFile, showSizeReduction) ==
  LET head == IF isNewFile
              THEN <<"File successfully minified and saved as: ", fileName, "!">>
              ELSE <<fileName, " successfully minified!">>
  IN IF stats.reductionPercent = Finite(0)
     THEN head \o <<" No size change (">> \o stats.originalSizeKB \o <<")">>
     ELSE head \o <<" Size reduced by ", percentText(stats.reductionPercent), "% (">>
            \o stats.originalSizeKB \o <<" -> ">> \o stats.minifiedSizeKB \o <<")">>

\* a message is a sequence of phrases; showSizeReduction is the value of the
\* setting when the message is made
formatSizeReductionMessage(fileName, stats, isNewFile, showSizeReduction) ==
  LET head == IF isNewFile
              THEN <<"File successfully minified and saved as: ", fileName, "!">>
              ELSE <<fileName, " successfully minified!">>
  IN IF ~configGet(showSizeReduction, TRUE)
     THEN IF isNewFile THEN <<"File successfully minified and saved as: ", fileName>>
          ELSE <<fileName, " has been successfully minified.">>
     ELSE IF stats.reductionPercent = Finite(0)
          THEN head \o <<" No size change (">> \o stats.originalSizeKB \o <<")">>
          ELSE head \o <<" Size reduced by ", percentText(stats.reductionPercent), "% (">>
                 \o stats.originalSizeKB \o <<" -> ">> \o stats.minifiedSizeKB \o <<")">>

InitMessage ==
  /\ Quiet
  /\ \E o \in 1..MaxShownSize, m \in 0..MaxShownSize, show \in SettingValues,
        new \in BOOLEAN, name \in ShownNames :
       probe = [fn |-> "formatSizeReductionMessage", fileName |-> name,
                stats |-> Stats(o, m), isNewFile |-> new, showSizeReduction |-> show,
                step |-> "called", message |-> <<>>]

\* the message saveAsNewFile (isNewFile) and replaceDocumentContent show
formatMessage ==
  /\ probe.fn = "formatSizeReductionMessage"
  /\ probe.step = "called"
  /\ probe' = [probe EXCEPT !.step = "returned",
                            !.message = formatSizeReductionMessage(
                                          probe.fileName, probe.stats, probe.isNewFile,
                                          probe.showSizeReduction)]
  /\ UNCHANGED system

NextMessage == formatMessage

SpecMessage == InitMessage /\ [][NextMessage]_vars

\* ---------------------------------------------------- the request body
\* a text is a sequence of characters here
MaxLen == 3
Alphabet == {"+", " ", "%", "&", "=", "n", "2", "B"}
Texts == UNION {[1..k -> Alphabet] : k \in 0..MaxLen}

\* the text sent as it is
encodeURIComponent_raw(text) == text

\* encodeURIComponent: letters and digits stay, every other character of
\* Alphabet becomes % and the two hexadecimal digits of its code
RECURSIVE encodeURIComponent(_)
encodeURIComponent(text) ==
  IF text = <<>> THEN <<>>
  ELSE LET c == text[1]
           e == CASE c = "+" -> <<"%", "2", "B">>
                  [] c = " " -> <<"%", "2", "0">>
                  [] c = "%" -> <<"%", "2", "5">>
                  [] c = "&" -> <<"%", "2", "6">>
                  [] c = "=" -> <<"%", "3", "D">>
                  [] OTHER -> <<c>>
       IN e \o encodeURIComponent(SubSeq(text, 2, Len(text)))

\* const manuallyEncoded = 'input=' + encodeURIComponent(text)
manuallyEncoded(text) == <<"i", "n", "p", "u", "t", "=">> \o encodeURIComponent(text)

HexDigits == {"0", "1", "2", "3", "4", "5", "6", "7", "8", "9",
              "A", "B", "C", "D", "E", "F"}

\* the character with the hexadecimal code h1 h2; codes of characters
\* outside Alphabet give "other"
FromHex(h1, h2) ==
  CASE h1 = "2" /\ h2 = "B" -> "+"
    [] h1 = "2" /\ h2 = "0" -> " "
    [] h1 = "2" /\ h2 = "5" -> "%"
    [] h1 = "2" /\ h2 = "6" -> "&"
    [] h1 = "3" /\ h2 = "D" -> "="
    [] h1 = "6" /\ h2 = "E" -> "n"
    [] h1 = "3" /\ h2 = "2" -> "2"
    [] h1 = "4" /\ h2 = "2" -> "B"
    [] OTHER -> "other"

\* decoding of a name or a value of an application/x-www-form-urlencoded
\* body: + is a space, %XY is the character with code XY
RECURSIVE Unescape(_)
Unescape(s) ==
  IF s = <<>> THEN <<>>
  ELSE IF s[1] = "+" THEN <<" ">> \o Unescape(SubSeq(s, 2, Len(s)))
  ELSE IF s[1] = "%" /\ Len(s) >= 3 /\ s[2] \in HexDigits /\ s[3] \in HexDigits
       THEN <<FromHex(s[2], s[3])>> \o Unescape(SubSeq(s, 4, Len(s)))
       ELSE <<s[1]>> \o Unescape(SubSeq(s, 2, Len(s)))

\* the first position of character c in s from position k on, Len(s) + 1 if
\* there is none
RECURSIVE IndexOf(_, _, _)
IndexOf(s, c, k) == IF k > Len(s) \/ s[k] = c THEN k ELSE IndexOf(s, c, k + 1)

\* the pairs of a form body: split at &, each part split at its first =
RECURSIVE FormPairs(_)
FormPairs(body) ==
  IF body = <<>> THEN <<>>
  ELSE LET amp == IndexOf(body, "&", 1)
           part == SubSeq(body, 1, amp - 1)
           eq == IndexOf(part, "=", 1)
           pair == [name |-> Unescape(SubSeq(part, 1, eq - 1)),
                    value |-> Unescape(SubSeq(part, eq + 1, Len(part)))]
       IN (IF part = <<>> THEN <<>> ELSE <<pair>>)
          \o FormPairs(SubSeq(body, amp + 1, Len(body)))

InitEncode ==
  /\ Quiet
  /\ \E t \in Texts :
       probe = [fn |-> "encode", text |-> t, step |-> "text", body |-> <<>>, pairs |-> <<>>]

\* getMinifiedText builds the request body
encodeBody ==
  /\ probe.fn = "encode"
  /\ probe.step = "text"
  /\ probe' = [probe EXCEPT !.step = "encoded", !.body = manuallyEncoded(probe.text)]
  /\ UNCHANGED system

\* the receiver decodes the form body
formDecode ==
  /\ probe.fn = "encode"
  /\ probe.step = "encoded"
  /\ probe' = [probe EXCEPT !.step = "decoded", !.pairs = FormPairs(probe.body)]
  /\ UNCHANGED system

NextEncode == encodeBody \/ formDecode

SpecEncode == InitEncode /\ [][NextEncode]_vars

\* ------------------------------------------------ createMinifiedFileName
\* a file name is a sequence of pieces: the pieces of its stem, then its
\* extension
MaxStem == 2
StemPieces == {"a", ".b", ".css", ".js"}
Stems == UNION {[1..k -> StemPieces] : k \in 0..MaxStem}
\* the values of css-js-minifier.minifiedNewFilePrefix
ConfiguredPrefixes ==
  {<<".min">>, <<"-min">>, <<".compressed">>, <<"-compressed">>, <<".minified">>,
   <<"-minified">>}

InitName ==
  /\ Quiet
  /\ \E st \in Stems, ext \in {".css", ".js"}, pre \in ConfiguredPrefixes :
       probe = [fn |-> "createMinifiedFileName", stem |-> st, ext |-> ext,
                prefix |-> pre, step |-> "called", newFileName |-> <<>>]

\* createMinifiedFileName(document.fileName, options.filePrefix)
deriveFileName ==
  /\ probe.fn = "createMinifiedFileName"
  /\ probe.step = "called"
  /\ probe' = [probe EXCEPT !.step = "returned",
                            !.newFileName =
                               createMinifiedFileName(probe.stem \o <<probe.ext>>, probe.prefix)]
  /\ UNCHANGED system

NextName == deriveFileName

SpecName == InitName /\ [][NextName]_vars

\* ------------------------------------------- any value of the prefix
\* minifiedNewFilePrefix is a string setting: settings.json may hold any
\* string for it, the empty one included
AnyPrefixes == ConfiguredPrefixes \cup {<<>>}

\* activation with minify on save set to new-file mode and one css
\* document open, edited and not yet saved
InitPrefix ==
  /\ cfg \in [minifyOnSave : {TRUE}, minifyInNewFile : {TRUE},
              minifiedNewFilePrefix : AnyPrefixes, autoOpenNewFile : {FALSE}]
  /\ listening = cfg.minifyOnSave
  /\ docs = [d \in Docs |-> [languageId |-> "css", fileName |-> <<d, ".css">>,
                             bytes |-> 32]]
  /\ docText = [d \in Docs |-> [v |-> <<"src", d>>, bytes |-> 32]]
  /\ dirty = [d \in Docs |-> TRUE]
  /\ fs = [p \in {docs[d].fileName : d \in Docs} |-> [v |-> <<"old", p[1]>>, bytes |-> 30]]
  /\ shown = {}
  /\ processingDocuments = {}
  /\ pendingSaves = [d \in Docs |-> 0]
  /\ inv = <<>>
  /\ net = <<>>
  /\ userOps = 0
  /\ probe = NoProbe

SpecPrefix == InitPrefix /\ [][NextManual]_vars

\* ================================================================ claims
\* the text document d had when it was opened
SrcText(d) == [v |-> "src", bytes |-> docs[d].bytes]

\* d passes validation: supported kind, not empty, not above the ceiling
Valid(d) ==
  /\ docs[d].languageId \in {"css", "javascript"}
  /\ docs[d].bytes > 0
  /\ docs[d].bytes <= 5 * 1024 * 1024

Invs == 1..Len(inv)
Reqs == 1..Len(net)

\* a save-triggered in-place invocation is in flight for d
InPlaceSaveInFlight(d) ==
  \E i \in Invs : inv[i].entry = "save" /\ inv[i].guarded /\ inv[i].doc = d
                  /\ inv[i].pc \notin Final

\* the user's only action so far was to save
OnlySaved == userOps = 1 /\ \A i \in Invs : inv[i].entry = "save"

\* the user's only action so far was the command `entry`
OnlyCommand(entry) == userOps = 1 /\ Len(inv) >= 1 /\ inv[1].entry = entry

\* C1: while a document is in Processing for a save-triggered in-place
\* invocation, the delivery of a further save event of that document changes
\* nothing but the event queue: no request, no edit, no file write, no
\* notification, the guard as it was.
C1_SaveDuringProcessingSkipped ==
  [][\A d \in Docs :
       (InPlaceSaveInFlight(d) /\ d \in processingDocuments
          /\ pendingSaves'[d] = pendingSaves[d] - 1)
       => UNCHANGED <<inv, net, docText, dirty, fs, shown, processingDocuments>>]_vars

\* the save event raised by the write of invocation 1 was delivered while
\* invocation 1 still held the guard, and started nothing
C1_Witness ==
  /\ Len(inv) = 1 /\ inv[1].entry = "save" /\ inv[1].guarded /\ inv[1].pc = "saved"
  /\ processingDocuments = {inv[1].doc}
  /\ pendingSaves[inv[1].doc] = 0

\* C2: with minify-on-save in in-place mode, one user save of a valid
\* document sends at most one request and makes at most one in-place write,
\* whenever the save event of the write is delivered.
C2_OneSaveOneRequest ==
  \A d \in Docs :
    (listening /\ ~cfg.minifyInNewFile /\ Valid(d) /\ OnlySaved)
    => /\ Len(net) <= 1
       /\ Cardinality({i \in Invs : inv[i].writes > 0}) <= 1

\* C3: a document with no save-triggered in-place invocation in flight is
\* Idle.
C3_IdleWhenNothingInFlight ==
  \A d \in Docs : ~InPlaceSaveInFlight(d) => d \notin processingDocuments

\* a save-triggered in-place invocation ended in a thrown write-back, another
\* one ended normally, and the document is Idle
C3_Witness ==
  /\ \E i \in Invs : inv[i].guarded /\ inv[i].pc = "rejected"
  /\ \E i \in Invs : inv[i].guarded /\ inv[i].pc = "done"
  /\ processingDocuments = {}

\* C4: the manual in-place write holds the guard while it writes, so with
\* minify-on-save enabled the save it performs starts no save-triggered
\* minification: no save handler sends a request when the user's only action
\* was the manual command.
C4_ManualWriteHoldsGuard ==
  (listening /\ OnlyCommand("minify"))
  => \A i \in Invs : inv[i].entry = "save" => inv[i].reqs = 0

\* C5: a document that validation rejects is never sent and never written:
\* no request is made for it, its buffer and the file system stay as they
\* were.
C5_RejectedNoRequestNoWrite ==
  \A d \in Docs :
    ~Valid(d)
    => /\ \A q \in Reqs : inv[net[q].inv].doc # d
       /\ \A i \in Invs : inv[i].doc = d => inv[i].reqs = 0 /\ inv[i].writes = 0
       /\ docText[d] = SrcText(d)
       /\ DOMAIN fs = {docs[e].fileName : e \in Docs}
       /\ fs[docs[d].fileName] = SrcText(d)

\* a text above the ceiling went through a whole command (both calls of
\* processDocument rejected it)
C5_Witness ==
  \E i \in Invs : /\ docs[inv[i].doc].bytes > MAX_FILE_SIZE_BYTES
                  /\ inv[i].pc = "done" /\ inv[i].errs = 2

\* C6: as long as every invocation is a new-file invocation, the original
\* document is untouched, in the editor and on disk.
C6_NewFileLeavesOriginal ==
  (\A i \in Invs : inv[i].opts.saveAsNewFile)
  => \A d \in Docs : docText[d] = SrcText(d) /\ fs[docs[d].fileName] = SrcText(d)

\* C7: no invocation ends in a rejection, and an invocation that has ended
\* has shown exactly one notification per call of the pipeline.
C7_EveryFailureNotified ==
  \A i \in Invs :
    /\ inv[i].pc # "rejected"
    /\ inv[i].pc = "done" => inv[i].errs + inv[i].infos = inv[i].call

C9_OneCommandOneRequest ==
  \A e \in {"minify", "minifyInNewFile"} :
    (~listening /\ OnlyCommand(e) /\ Valid(inv[1].doc))
    => inv[1].reqs <= 1 /\ inv[1].infos <= 1

\* C10: a save event handled in new-file mode on a valid document ends with
\* exactly one request and exactly one notification.
C10_NewFileSaveOneNotification ==
  \A i \in Invs :
    (inv[i].entry = "save" /\ cfg.minifyInNewFile /\ Valid(inv[i].doc) /\ inv[i].pc \in Final)
    => inv[i].reqs = 1 /\ inv[i].errs + inv[i].infos = 1

\* C11: nothing is retried: an invocation on a valid document whose network
\* call has failed (it has shown its error) has no further request in flight.
C11_NoRequestAfterFailure ==
  \A i \in Invs :
    Valid(inv[i].doc) => ~(inv[i].errs >= 1 /\ inv[i].pc = "race")

\* the probe has shown the notification of a response that is not ok
HttpShown == probe.fn = "getMinifiedText" /\ probe.shown # NoMessage

\* C12: for a response with status 429 the notification names the limit of
\* 30 requests per minute, whatever the body is.
C12_RateLimitNamed ==
  (HttpShown /\ probe.response.status = 429)
  => /\ probe.shown.key = "minificationService.error.generic"
     /\ Includes(probe.shown.args[2], RateLimitPhrase)

\* C13: the reported error is the detail of the JSON body when it has one and
\* the message of the status table otherwise, and it is never empty.
C13_DetailElseStatusTable ==
  HttpShown
  => LET r == probe.response
         reported == IF r.json /\ r.detail # <<>>
                     THEN r.detail
                     ELSE statusMessage(r.status, r.statusText, probe.fileType)
     IN /\ reported # <<>>
        /\ probe.shown = userMessage(reported, probe.fileType)

StatsDone == probe.fn = "calculateStats" /\ probe.reductionPercent # NoStats

\* C15: for an original size above 0 the percentage is a number between 0
\* and 100, also when the minified text is larger than the original.
C15_PercentWithinRange ==
  (StatsDone /\ probe.originalSize > 0)
  => /\ probe.reductionPercent.kind = "finite"
     /\ probe.reductionPercent.value >= 0
     /\ probe.reductionPercent.value <= 100

\* C16: for an original size of 0 the percentage is 0.
C16_ZeroOriginalGivesZero ==
  (StatsDone /\ probe.originalSize = 0) => probe.reductionPercent = Finite(0)

\* C17: when the minified size is at most the original size, and that is
\* above 0, the percentage is an integer nearest to
\* 100 * (originalSize - minifiedSize) / originalSize: it is off by at most
\* one half.
C17_NearestInteger ==
  (StatsDone /\ probe.originalSize > 0 /\ probe.minifiedSize <= probe.originalSize)
  => LET o == probe.originalSize
         p == probe.reductionPercent.value
         twice == 2 * (100 * (o - probe.minifiedSize) - p * o)
     IN /\ probe.reductionPercent.kind = "finite"
        /\ twice <= o /\ 0 - twice <= o

\* 40 bytes minified to 17: the quotient 0.575 is not a binary64 value, the
\* product is just below 57.5 and the percentage is 57
C17_Witness ==
  /\ StatsDone /\ probe.originalSize = 40 /\ probe.minifiedSize = 17
  /\ probe.reductionPercent = Finite(57)

\* C18: the settings are those of the start of the invocation: the write of
\* a new file is for the target made from the prefix read at the start, and
\* the file is opened exactly when autoOpenNewFile was set at the start.
C18_SettingsFixedAtStart ==
  [][\A i \in Invs :
       (inv[i].pc = "writeFile" /\ inv'[i].writes = inv[i].writes + 1)
       => /\ inv[i].target = createMinifiedFileName(docs[inv[i].doc].fileName,
                                                    inv[i].cfg0.minifiedNewFilePrefix)
          /\ (inv[i].target \in shown')
             <=> (inv[i].cfg0.autoOpenNewFile \/ inv[i].target \in shown)
    ]_vars

\* C19: a change of minifyOnSave takes effect at once: whenever the user
\* saves a document, its save event reaches onSaveMinify exactly when
\* minifyOnSave is set at that moment.
C19_MinifyOnSaveFollowsSetting ==
  [][\A d \in Docs :
       (userOps' = userOps + 1 /\ pendingSaves'[d] = pendingSaves[d] + 1)
       => (listening <=> cfg.minifyOnSave)
    ]_vars

\* C20: form-decoding the request body of a text gives one pair, named
\* input, whose value is exactly the text.
C20_BodyDecodesToText ==
  (probe.fn = "encode" /\ probe.step = "decoded")
  => probe.pairs = << [name |-> <<"i", "n", "p", "u", "t">>, value |-> probe.text] >>

\* a text with a literal +, a space and an & came back as it was
C20_Witness ==
  /\ probe.fn = "encode" /\ probe.step = "decoded"
  /\ probe.text = <<"+", " ", "&">>
  /\ Len(probe.pairs) = 1
  /\ probe.pairs[1].value = <<"+", " ", "&">>

\* C21: for a name stem + ext with ext .css or .js and each of the six
\* configured prefixes, createMinifiedFileName returns stem + prefix + ext.
C21_PrefixBeforeExtension ==
  (probe.fn = "createMinifiedFileName" /\ probe.step = "returned")
  => probe.newFileName = probe.stem \o probe.prefix \o <<probe.ext>>

\* a name with .css inside its stem got -compressed before its final .js
C21_Witness ==
  /\ probe.fn = "createMinifiedFileName" /\ probe.step = "returned"
  /\ probe.stem = <<"a", ".css">> /\ probe.ext = ".js"
  /\ probe.newFileName = <<"a", ".css", "-compressed", ".js">>

C24_Sizes32And25 ==
  (probe.fn = "calculateStats(texts)" /\ probe.step = "returned"
     /\ probe.originalText = ExampleInput /\ probe.minifiedText = ExampleOutput)
  => /\ probe.stats.originalSize = 32 /\ probe.stats.minifiedSize = 25
     /\ probe.stats.reductionPercent = Finite(22)
     /\ probe.stats.originalSizeKB = <<"32", " B">>
     /\ probe.stats.minifiedSizeKB = <<"25", " B">>

\* C24, amended: body { color: red; margin: 0; } minified to
\* body{color:red;margin:0} measures 31 and 24 bytes, reductionPercent is 23
\* and the sizes are shown as 31 B and 24 B.
C24_Sizes31And24 ==
  (probe.fn = "calculateStats(texts)" /\ probe.step = "returned"
     /\ probe.originalText = ExampleInput /\ probe.minifiedText = ExampleOutput)
  => /\ probe.stats.originalSize = 31 /\ probe.stats.minifiedSize = 24
     /\ probe.stats.reductionPercent = Finite(23)
     /\ probe.stats.originalSizeKB = <<"31", " B">>
     /\ probe.stats.minifiedSizeKB = <<"24", " B">>

\* the statistics of the two texts have been computed
C24_Witness ==
  /\ probe.fn = "calculateStats(texts)" /\ probe.step = "returned"
  /\ probe.originalText = ExampleInput /\ probe.minifiedText = ExampleOutput
  /\ probe.stats.reductionPercent.kind = "finite"

\* C25: invocations on distinct documents do not interfere. A save event of
\* a document that is not in Processing starts an invocation and a request
\* for that document whatever other documents are in Processing; a step
\* changes the buffer and the guard entry of no document but the one its
\* invocation works on; and every buffer and every file only ever holds
\* text that comes from its own document.
C25_DistinctDocumentsIndependent ==
  [][/\ \A d \in TwoDocs :
          (pendingSaves'[d] < pendingSaves[d] /\ d \notin processingDocuments)
          => /\ Len(inv') = Len(inv) + 1
             /\ inv'[Len(inv')].doc = d
             /\ inv'[Len(inv')].pc = "race"
             /\ Len(net') = Len(net) + 1
             /\ processingDocuments \subseteq processingDocuments'
     /\ LET stepped == {j \in 1..Len(inv') : j > Len(inv) \/ inv'[j] # inv[j]}
        IN \A d \in TwoDocs :
             (\A j \in stepped : inv'[j].doc # d)
             => /\ docText'[d] = docText[d]
                /\ (d \in processingDocuments' <=> d \in processingDocuments)
     /\ \A d \in TwoDocs : docText'[d].v[2] = d
     /\ \A p \in DOMAIN fs' :
          /\ fs'[p].v[2] = p[1]
          /\ p \in {docs[p[1]].fileName,
                    createMinifiedFileName(docs[p[1]].fileName, cfg.minifiedNewFilePrefix)}
    ]_vars

\* both documents are in Processing, each with its own request in flight
C25_Witness ==
  /\ Len(inv) = 2
  /\ inv[1].doc # inv[2].doc
  /\ inv[1].pc = "race" /\ inv[2].pc = "race"
  /\ processingDocuments = TwoDocs

\* C26: the manual commands never consult the guard. A command started on
\* a valid document sends its request, and its second processDocument call
\* does so too, whether or not the document is in Processing; a command
\* that receives a minified text goes on to write it; and no step of a
\* command adds or removes a guard entry.
C26_ManualAlwaysProceeds ==
  [][\A i \in 1..Len(inv') :
       (inv'[i].entry # "save" /\ (i > Len(inv) \/ inv'[i] # inv[i]))
       => /\ processingDocuments' = processingDocuments
          /\ i > Len(inv) => (inv'[i].pc = "race" /\ inv'[i].reqs = 1)
          /\ (i <= Len(inv) /\ inv[i].pc = "openDoc")
               => (inv'[i].pc = "race" /\ inv'[i].reqs = inv[i].reqs + 1)
          /\ (i <= Len(inv) /\ inv[i].pc = "race" /\ inv'[i].errs = inv[i].errs)
               => inv'[i].pc \in {"applyEdit", "writeFile"}
          /\ (i <= Len(inv) /\ inv[i].pc = "applyEdit")
               => docText'[inv[i].doc] = inv[i].minified
    ]_vars

\* a command started on a document in Processing has written its result
\* back while the save-triggered invocation is still waiting
C26_Witness ==
  \E i, j \in 1..Len(inv) :
    /\ i < j
    /\ inv[i].entry = "save" /\ inv[i].guarded /\ inv[i].pc = "race"
    /\ inv[j].entry = "minify" /\ inv[j].doc = inv[i].doc
    /\ inv[j].writes >= 1
    /\ inv[i].doc \in processingDocuments
    /\ docText[inv[j].doc] = inv[j].minified

\* C27: a save-triggered invocation that takes the new-file branch never
\* changes the guard: no step of it, from its start to its end, adds or
\* removes an entry.
C27_NewFileSaveLeavesGuard ==
  [][\A i \in 1..Len(inv') :
       (inv'[i].entry = "save" /\ inv'[i].opts.saveAsNewFile
          /\ (i > Len(inv) \/ inv'[i] # inv[i]))
       => processingDocuments' = processingDocuments]_vars

\* a save-triggered new-file invocation has written its file while the
\* document was in Processing for an in-place invocation started after it
C27_Witness ==
  \E i, j \in 1..Len(inv) :
    /\ inv[i].entry = "save" /\ inv[i].opts.saveAsNewFile
    /\ inv[i].pc = "done" /\ inv[i].writes = 1
    /\ inv[j].entry = "save" /\ inv[j].guarded /\ inv[j].pc = "race"
    /\ inv[j].doc = inv[i].doc
    /\ processingDocuments = {inv[i].doc}

\* C28: onSaveMinify checks the guard and acquires it in one segment, so at
\* most one save-triggered in-place invocation of a document is in flight at
\* a time, the document is in Processing while it is, and a guard entry is
\* removed only in the step that ends the invocation which added it.
C28_OneHolderPerDocument ==
  [][\A d \in Docs :
       LET holders == {i \in 1..Len(inv') :
                         inv'[i].guarded /\ inv'[i].doc = d /\ inv'[i].pc \notin Final}
       IN /\ Cardinality(holders) <= 1
          /\ holders # {} => d \in processingDocuments'
          /\ (d \in processingDocuments /\ d \notin processingDocuments')
               => \E i \in 1..Len(inv) :
                    /\ inv[i].guarded /\ inv[i].doc = d
                    /\ inv[i].pc \notin Final /\ inv'[i].pc \in Final
                    /\ \A j \in 1..Len(inv) : j # i => inv'[j] = inv[j]
    ]_vars

\* a second save event of the document was delivered, and skipped, while
\* the invocation of the first was waiting for its response
C28_Witness ==
  /\ Len(inv) = 1 /\ inv[1].guarded /\ inv[1].pc = "race"
  /\ userOps = 1
  /\ \A d \in Docs : ~dirty[d] /\ pendingSaves[d] = 0
  /\ processingDocuments = {inv[1].doc}

\* C29: with the timers and the host's operations fair, every invocation
\* that has started eventually ends and every document in Processing
\* eventually leaves it, whatever the remote endpoint does.
C29_EventuallyIdle ==
  /\ \A i \in 1..MaxInv : (Len(inv) >= i) ~> (Len(inv) >= i /\ inv[i].pc \in Final)
  /\ \A d \in Docs : (d \in processingDocuments) ~> (d \notin processingDocuments)

\* C30: an invocation on a valid document whose minification call ended in
\* an error (timeout, network failure, a response that is not ok) writes
\* nothing back, neither before nor after the error: no edit and no file
\* write is made or under way, and once it has ended it holds no guard
\* entry.
C30_ErrorMeansNoWriteBack ==
  \A i \in Invs :
    (Valid(inv[i].doc) /\ inv[i].errs >= 1)
    => /\ inv[i].writes = 0
       /\ inv[i].pc \notin {"applyEdit", "saved", "writeFile"}
       /\ (inv[i].pc \in Final /\ ~InPlaceSaveInFlight(inv[i].doc))
            => inv[i].doc \notin processingDocuments

\* C31: the in-place write-back sets the whole buffer to the minified form
\* of the text that the invocation read when it started, whatever the
\* buffer holds at that moment, and the save that follows persists that:
\* what the user typed, and saved, in between is gone.
C31_WriteBackOverwritesEdits ==
  [][\A i \in 1..Len(inv) :
       (inv[i].pc = "applyEdit" /\ inv'[i].pc # "applyEdit")
       => /\ docText'[inv[i].doc] = minify(inv[i].text)
          /\ inv'[i].pc = "saved"
               => fs'[docs[inv[i].doc].fileName] = minify(inv[i].text)]_vars

\* the only invocation read the first text, the user typed once, and buffer
\* and file hold the minified form of the first text
C31_Witness ==
  /\ userOps = 1 /\ Len(inv) = 1
  /\ inv[1].guarded /\ inv[1].pc = "done" /\ inv[1].writes = 1
  /\ inv[1].text.v = <<"src", inv[1].doc>>
  /\ docText[inv[1].doc].v = <<"min", "src", inv[1].doc>>
  /\ fs[docs[inv[1].doc].fileName] = docText[inv[1].doc]
  /\ ~dirty[inv[1].doc]

\* C32: the timer of a request is never cancelled: it stays armed until it
\* expires, also when the response wins the race. Its expiry after the
\* response has won changes nothing: no notification, no change of the
\* invocation (which therefore does not end in a rejection either), of the
\* guard, of the document or of the files.
C32_LateTimerNoEffect ==
  [][\A q \in Reqs :
       /\ net[q].timer = "armed" => net'[q].timer \in {"armed", "fired"}
       /\ (net[q].won = "none" /\ net'[q].won = "fetch") => net'[q].timer = net[q].timer
       /\ (net[q].won = "fetch" /\ net[q].timer = "armed" /\ net'[q].timer = "fired")
          => /\ net'[q].won = "fetch"
             /\ UNCHANGED <<inv, docText, dirty, fs, shown, pendingSaves,
                            processingDocuments>>
    ]_vars

\* the response of a request won, its invocation announced the success, and
\* the timer expired afterwards
C32_Witness ==
  \E q \in Reqs :
    /\ net[q].won = "fetch" /\ net[q].timer = "fired"
    /\ inv[net[q].inv].errs = 0 /\ inv[net[q].inv].infos >= 1
    /\ inv[net[q].inv].pc = "done"

\* C33: the success notification of an in-place write-back is shown only
\* by an invocation whose edit was applied and whose document was saved.
C33_SuccessOnlyIfAppliedAndSaved ==
  [][\A i \in 1..Len(inv) :
       (inv[i].pc \in {"saved", "unsaved"} /\ inv'[i].infos = inv[i].infos + 1)
       => inv[i].pc = "saved"]_vars

\* C34: on both entry points a document that validation rejects (kind,
\* empty, size) gets one message for the first failing check and no
\* request, and a document that passes validation gets no message: this
\* holds for the delivery of a save event to the listening handler of a
\* document that is not in Processing, and for the start of a command.
C34_RejectionAlwaysExplained ==
  [][\A d \in Docs :
       LET started == Len(inv') = Len(inv) + 1 /\ inv'[Len(inv')].doc = d
           judged == /\ started
                     /\ Valid(d) => inv'[Len(inv')].errs = 0
                     /\ ~Valid(d) => (inv'[Len(inv')].errs = 1 /\ inv'[Len(inv')].reqs = 0)
       IN /\ (pendingSaves'[d] < pendingSaves[d] /\ listening
                /\ d \notin processingDocuments) => judged
          /\ (started /\ inv'[Len(inv')].entry # "save") => judged
    ]_vars

\* C35: the ceiling is inclusive. A text of exactly 5 * 1024 * 1024 bytes
\* passes every check and is sent; a text of one byte more is rejected with
\* the too-large message and never sent; an empty text is rejected with the
\* empty-content message, not with the size message, and never sent.
C35_CeilingInclusive ==
  \A i \in Invs :
    /\ inv[i].text.bytes = 5 * 1024 * 1024
         => (inv[i].msg = "none" /\ inv[i].reqs >= 1)
    /\ inv[i].text.bytes = 5 * 1024 * 1024 + 1
         => (inv[i].msg = "minificationService.fileSize.tooLarge" /\ inv[i].reqs = 0
             /\ inv[i].errs >= 1)
    /\ (inv[i].text.bytes = 0 /\ inv[i].fileType = "css")
         => (inv[i].msg = "validators.content.empty" /\ inv[i].reqs = 0
             /\ inv[i].errs >= 1)

\* a text of exactly the ceiling was sent and its minified form written
C35_Witness ==
  \E i \in Invs :
    /\ docs[inv[i].doc].bytes = MAX_FILE_SIZE_BYTES
    /\ inv[i].reqs >= 1 /\ inv[i].writes >= 1 /\ inv[i].msg = "none"

\* C36: an invocation that asks for a new file (minifyInNewFileCommand, or a
\* save event with minifyInNewFile set) never takes the in-place branch,
\* whatever the prefix is, the empty string included.
C36_NewFileNeverInPlace ==
  \A i \in Invs :
    inv[i].opts.saveAsNewFile => inv[i].pc \notin {"applyEdit", "saved", "unsaved"}

\* C37: an invocation that has reached the write of the new file works on a
\* document whose file name ends in .css or .js, and the path it writes to
\* is not the path of that document.
C37_NewFileNeverTargetsOriginal ==
  \A i \in Invs :
    inv[i].pc = "writeFile"
    => LET name == docs[inv[i].doc].fileName
       IN /\ name[Len(name)] \in {".css", ".js"}
          /\ inv[i].target # name

C39_KindByCauseNotByText ==
  (probe.fn = "getMinifiedText(catch)" /\ probe.shown # NoMessage)
  => /\ probe.failure.cause = "timer"
          => probe.shown.key = "minificationService.error.timeout"
     /\ probe.failure.cause = "network"
          => probe.shown.key = "minificationService.error.network"
     /\ probe.failure.cause = "status"
          => probe.shown.key = "minificationService.error.generic"
====
